---- MODULE Spec2Model ----
(***************************************************************************)
(* Model of forecast.py: a straight-line script that reads a CSV table,    *)
(* adds chosen_cagr, cagr_source and three forecast columns, and writes    *)
(* the table to a second CSV file.                                         *)
(*                                                                         *)
(* Numbers are fixed-point integers in units of 1/Scale (Scale = 100, the  *)
(* two decimals of .round(2)): a price 100.0 is 10000, a rate 0.10 is 10.  *)
(* price * (1 + rate)^k is an exact rational and is rounded half-to-even,  *)
(* as numpy's rint does; the input values used here have no product that   *)
(* lies exactly between two cents, where binary64 could differ.            *)
(*                                                                         *)
(* A file cell is a text token (empty, the text NA, a number, a string);   *)
(* read_csv parses tokens to values and to_csv formats values to tokens.   *)
(***************************************************************************)
EXTENDS Integers, Sequences, FiniteSets, TLC

VARIABLES
    pc,           \* position of the script, or "done" / "aborted"
    err,          \* the exception that aborted the run, "none" otherwise
    input_file,   \* content of input_file on disk
    output_file,  \* content of output_file on disk
    df,           \* the in-memory DataFrame
    reads,        \* number of read_csv calls of the current run
    writes,       \* number of to_csv calls of the current run
    prev_out,     \* content of output_file when the current run started
    in1,          \* the input of the first run
    out1,         \* the output written by the first run
    mode          \* "first", or how the second run's input was made

vars == <<pc, err, input_file, output_file, df, reads, writes, prev_out, in1, out1, mode>>

-----------------------------------------------------------------------------
(* Bounds *)

MaxRows == 2

-----------------------------------------------------------------------------
(* Column names *)

price_col == "Price_per_SQFT"
city_cagr_col == "City_Level_Annual_CAGR"
loc_cagr_col == "Locality_Level_Annual_CAGR"
chosen_col == "chosen_cagr"
source_col == "cagr_source"

Scale == 100

Years == {1, 2, 3}

ForecastCol(k) ==
    CASE k = 1 -> "Price_per_SQFT_plus_1yr"
      [] k = 2 -> "Price_per_SQFT_plus_2yr"
      [] k = 3 -> "Price_per_SQFT_plus_3yr"

RequiredCols == {price_col, city_cagr_col, loc_cagr_col}

DerivedSeq == <<chosen_col, source_col, ForecastCol(1), ForecastCol(2), ForecastCol(3)>>

DerivedCols == {DerivedSeq[i] : i \in 1..Len(DerivedSeq)}

-----------------------------------------------------------------------------
(* Cells: text tokens of a file and values of the DataFrame share one      *)
(* record shape so that any two cells can be compared.                     *)

Num(n) == [t |-> "num", n |-> n, s |-> ""]
Str(s) == [t |-> "str", n |-> 0, s |-> s]
Empty == [t |-> "empty", n |-> 0, s |-> ""]
NA == [t |-> "NA", n |-> 0, s |-> ""]
NaN == [t |-> "nan", n |-> 0, s |-> ""]

\* read_csv with the default na_values: an empty field and the text NA are
\* missing values; every other token is kept.
ParseCell(tok) == IF tok.t \in {"empty", "NA"} THEN NaN ELSE tok

\* faulty variant: to_csv(na_rep="0")
FormatCellZero(v) == IF v.t = "nan" THEN Num(0) ELSE v

\* to_csv with the default na_rep = "": a missing value is an empty field.
FormatCell(v) == IF v.t = "nan" THEN Empty ELSE v

notna(v) == v.t # "nan"

-----------------------------------------------------------------------------
(* Tables: cols is the header, rows the data rows, each aligned with cols. *)

NoFile == [exists |-> FALSE, cols |-> << >>, rows |-> << >>]

Table(cols, rows) == [exists |-> TRUE, cols |-> cols, rows |-> rows]

HasCol(tab, name) == \E i \in 1..Len(tab.cols) : tab.cols[i] = name

ColIdx(tab, name) == CHOOSE i \in 1..Len(tab.cols) : tab.cols[i] = name

\* df[name]
GetCol(tab, name) == [i \in 1..Len(tab.rows) |-> tab.rows[i][ColIdx(tab, name)]]

\* faulty variant: the new column is always appended (as pd.concat would)
SetColAppend(tab, name, vals) ==
    [tab EXCEPT !.cols = Append(tab.cols, name),
                !.rows = [i \in 1..Len(tab.rows) |-> Append(tab.rows[i], vals[i])]]

\* df[name] = vals: an existing column is replaced where it stands, a new
\* one is appended after the last column.
SetCol(tab, name, vals) ==
    IF HasCol(tab, name)
    THEN [tab EXCEPT !.rows =
            [i \in 1..Len(tab.rows) |-> [tab.rows[i] EXCEPT ![ColIdx(tab, name)] = vals[i]]]]
    ELSE [tab EXCEPT !.cols = Append(tab.cols, name),
                     !.rows = [i \in 1..Len(tab.rows) |-> Append(tab.rows[i], vals[i])]]

\* pd.read_csv(input_file) of a readable file with a header row (a file
\* without one raises EmptyDataError)
ParseTable(file) ==
    [file EXCEPT !.rows =
        [i \in 1..Len(file.rows) |->
            [j \in 1..Len(file.rows[i]) |-> ParseCell(file.rows[i][j])]]]

\* faulty variant: to_csv without index=False writes the row index as a first column
FormatTableIndexed(tab) ==
    [tab EXCEPT !.cols = <<"">> \o tab.cols,
                !.rows = [i \in 1..Len(tab.rows) |->
                            <<Num(i - 1)>> \o [j \in 1..Len(tab.rows[i]) |->
                                                FormatCell(tab.rows[i][j])]]]

\* df.to_csv(output_file, index=False), written completely
FormatTable(tab) ==
    [tab EXCEPT !.rows =
        [i \in 1..Len(tab.rows) |->
            [j \in 1..Len(tab.rows[i]) |-> FormatCell(tab.rows[i][j])]]]

\* what to_csv leaves when it stops after the header and the first n rows
PartialTable(tab, n) == [FormatTable(tab) EXCEPT !.rows = SubSeq(@, 1, n)]

\* what to_csv leaves when it stops after opening (truncating) the file
EmptyFile == Table(<< >>, << >>)

-----------------------------------------------------------------------------
(* Column arithmetic *)

\* np.where(cond, a, b), elementwise
Where(cond, a, b) == [i \in DOMAIN cond |-> IF cond[i] THEN a[i] ELSE b[i]]

NotnaCol(col) == [i \in DOMAIN col |-> notna(col[i])]

ConstCol(col, v) == [i \in DOMAIN col |-> v]

\* faulty variant: the city rate takes priority over the locality rate
ChosenCagrCityFirst(loc, city) == Where(NotnaCol(city), city, loc)

\* lines 19-23
ChosenCagr(loc, city) == Where(NotnaCol(loc), loc, city)

\* faulty variant: the inner np.where tests the locality column again
CagrSourceInnerLoc(loc, city) ==
    Where(NotnaCol(loc), ConstCol(loc, Str("locality")),
          Where(NotnaCol(loc), ConstCol(city, Str("city")), ConstCol(city, Str("none"))))

\* lines 26-29
CagrSource(loc, city) ==
    Where(NotnaCol(loc), ConstCol(loc, Str("locality")),
          Where(NotnaCol(city), ConstCol(city, Str("city")), ConstCol(city, Str("none"))))

RECURSIVE Pow(_, _)
Pow(x, k) == IF k = 0 THEN 1 ELSE x * Pow(x, k - 1)

\* a / b rounded to the nearest integer, ties to the even one (b > 0)
RoundHalfEven(a, b) ==
    LET q == a \div b
        r == a % b
    IN  IF 2 * r < b THEN q
        ELSE IF 2 * r > b THEN q + 1
        ELSE IF q % 2 = 0 THEN q ELSE q + 1

RECURSIVE Gcd(_, _)
Gcd(a, b) == IF b = 0 THEN a ELSE Gcd(b, a % b)

\* (a * b) / c rounded half-to-even; the factors a and c share are
\* cancelled first, which keeps the exact product within 32 bits
MulDivRound(a, b, c) ==
    LET g == Gcd(c, IF a < 0 THEN -a ELSE a)
    IN  RoundHalfEven((a \div g) * b, c \div g)

\* faulty variant: a missing rate counts as no growth (fillna(0))
ForecastCellFillna(price, rate, k) ==
    IF notna(price)
    THEN Num(MulDivRound(price.n, Pow(Scale + rate.n, k), Pow(Scale, k)))
    ELSE NaN

\* (price * (1 + rate)**k).round(2) of one row; NaN operands give NaN
ForecastCell(price, rate, k) ==
    IF notna(price) /\ notna(rate)
    THEN Num(MulDivRound(price.n, Pow(Scale + rate.n, k), Pow(Scale, k)))
    ELSE NaN

\* faulty variant: year k is grown from the rounded forecast of year k - 1
RECURSIVE ForecastChained(_, _, _)
ForecastChained(price, rate, k) ==
    IF k = 1 THEN [i \in DOMAIN price |-> ForecastCell(price[i], rate[i], 1)]
    ELSE [i \in DOMAIN price |->
            ForecastCell(ForecastChained(price, rate, k - 1)[i], rate[i], 1)]

\* lines 32-34
Forecast(price, rate, k) == [i \in DOMAIN price |-> ForecastCell(price[i], rate[i], k)]

-----------------------------------------------------------------------------
(* Inputs: the rows and the headers an input file may have *)

\* <<price, city rate, locality rate>> tokens of one row: every combination
\* of present and missing operands, and the rows of the worked examples.
InputRows ==
    { <<Num(10000), Num(5), Num(10)>>,
      <<Num(20000), Num(4), Empty>>,
      <<Num(107), Empty, Num(10)>>,
      <<Num(10000), Empty, NA>>,
      <<Empty, Num(5), Num(10)>>,
      <<NA, Num(4), Empty>>,
      <<Empty, NA, Num(10)>>,
      <<Empty, Empty, Empty>> }

RowSeqs == UNION { [1..n -> InputRows] : n \in 1..MaxRows }

\* the headers: the required columns alone, with another column, with one
\* of them absent, with some derived columns already there, with all five
Layouts == {"plain", "id", "noprice", "nocity", "noloc", "derived", "enriched"}

LayoutCols(l) ==
    CASE l = "plain" -> <<price_col, city_cagr_col, loc_cagr_col>>
      [] l = "id" -> <<"Property_ID", loc_cagr_col, price_col, city_cagr_col>>
      [] l = "noprice" -> <<city_cagr_col, loc_cagr_col>>
      [] l = "nocity" -> <<price_col, loc_cagr_col>>
      [] l = "noloc" -> <<price_col, city_cagr_col>>
      [] l = "derived" -> <<chosen_col, price_col, city_cagr_col, loc_cagr_col, ForecastCol(2)>>
      [] l = "enriched" -> <<chosen_col, price_col, ForecastCol(3), city_cagr_col, source_col,
                             loc_cagr_col, ForecastCol(1), ForecastCol(2)>>

\* row i of the table; r holds its price, city rate and locality rate. The
\* derived columns an input already has hold values the script would not
\* have computed.
LayoutRow(l, r, i) ==
    CASE l = "plain" -> <<r[1], r[2], r[3]>>
      [] l = "id" -> <<Num(i), r[3], r[1], r[2]>>
      [] l = "noprice" -> <<r[2], r[3]>>
      [] l = "nocity" -> <<r[1], r[3]>>
      [] l = "noloc" -> <<r[1], r[2]>>
      [] l = "derived" -> <<NA, r[1], r[2], r[3], Num(7)>>
      [] l = "enriched" -> <<Num(7), r[1], Num(7), r[2], Str("stale"), r[3], NA, Num(7)>>

InputTable(l, rs) ==
    Table(LayoutCols(l), [i \in 1..Len(rs) |-> LayoutRow(l, rs[i], i)])

InputFiles ==
    {NoFile, EmptyFile} \cup { InputTable(l, rs) : l \in Layouts, rs \in RowSeqs }

\* what the output location may hold before the first run
StaleFile == Table(<<"old">>, << <<Num(1)>> >>)

-----------------------------------------------------------------------------
(* The script *)

Init ==
    /\ pc = "load"
    /\ err = "none"
    /\ input_file \in InputFiles
    /\ output_file \in {NoFile, StaleFile}
    /\ df = NoFile
    /\ reads = 0
    /\ writes = 0
    /\ prev_out = output_file
    /\ in1 = input_file
    /\ out1 = NoFile
    /\ mode = "first"

\* faulty variant: the output file is opened for writing before the table is checked
AbortTruncating(e) ==
    /\ pc' = "aborted"
    /\ err' = e
    /\ output_file' = Table(<< >>, << >>)
    /\ UNCHANGED <<input_file, df, writes, prev_out, in1, out1, mode>>

\* an uncaught exception ends the script
Abort(e) ==
    /\ pc' = "aborted"
    /\ err' = e
    /\ UNCHANGED <<input_file, output_file, df, writes, prev_out, in1, out1, mode>>

\* line 10: df = pd.read_csv(input_file)
LoadData ==
    /\ pc = "load"
    /\ reads' = reads + 1
    /\ IF input_file.exists /\ Len(input_file.cols) > 0
       THEN /\ df' = ParseTable(input_file)
            /\ pc' = "select"
            /\ UNCHANGED <<err, input_file, output_file, writes, prev_out, in1, out1, mode>>
       ELSE Abort(IF input_file.exists THEN "EmptyDataError" ELSE "FileNotFoundError")

\* lines 19-23: df["chosen_cagr"] = np.where(...)
SelectCagr ==
    /\ pc = "select"
    /\ UNCHANGED reads
    /\ IF HasCol(df, loc_cagr_col) /\ HasCol(df, city_cagr_col)
       THEN /\ df' = SetCol(df, chosen_col,
                            ChosenCagr(GetCol(df, loc_cagr_col), GetCol(df, city_cagr_col)))
            /\ pc' = "source"
            /\ UNCHANGED <<err, input_file, output_file, writes, prev_out, in1, out1, mode>>
       ELSE Abort("KeyError")

\* lines 26-29: df["cagr_source"] = np.where(...)
IdentifySource ==
    /\ pc = "source"
    /\ UNCHANGED reads
    /\ IF HasCol(df, loc_cagr_col) /\ HasCol(df, city_cagr_col)
       THEN /\ df' = SetCol(df, source_col,
                            CagrSource(GetCol(df, loc_cagr_col), GetCol(df, city_cagr_col)))
            /\ pc' = "forecast1"
            /\ UNCHANGED <<err, input_file, output_file, writes, prev_out, in1, out1, mode>>
       ELSE Abort("KeyError")

PcOfYear(k) ==
    CASE k = 1 -> "forecast1"
      [] k = 2 -> "forecast2"
      [] k = 3 -> "forecast3"
      [] OTHER -> "save"

\* faulty variant: the table is saved after every forecast column
ForecastYearSaving(k) ==
    /\ pc = PcOfYear(k)
    /\ UNCHANGED reads
    /\ IF HasCol(df, price_col) /\ HasCol(df, chosen_col)
       THEN /\ df' = SetCol(df, ForecastCol(k),
                            Forecast(GetCol(df, price_col), GetCol(df, chosen_col), k))
            /\ pc' = PcOfYear(k + 1)
            /\ output_file' = FormatTable(df')
            /\ writes' = writes + 1
            /\ UNCHANGED <<err, input_file, prev_out, in1, out1, mode>>
       ELSE Abort("KeyError")

\* lines 32-34: df["Price_per_SQFT_plus_<k>yr"] = (...).round(2)
ForecastYear(k) ==
    /\ pc = PcOfYear(k)
    /\ UNCHANGED reads
    /\ IF HasCol(df, price_col) /\ HasCol(df, chosen_col)
       THEN /\ df' = SetCol(df, ForecastCol(k),
                            Forecast(GetCol(df, price_col), GetCol(df, chosen_col), k))
            /\ pc' = PcOfYear(k + 1)
            /\ UNCHANGED <<err, input_file, output_file, writes, prev_out, in1, out1, mode>>
       ELSE Abort("KeyError")

\* what the output location holds after a to_csv call that failed: the
\* old content when the file could not be opened, otherwise the truncated
\* file with as much of the table as was written before the error
FailedWrites(tab, old) ==
    {old, EmptyFile} \cup { PartialTable(tab, n) : n \in 0..(Len(tab.rows) - 1) }

\* line 37: df.to_csv(output_file, index=False)
SaveOutput ==
    /\ pc = "save"
    /\ writes' = writes + 1
    /\ UNCHANGED <<input_file, df, reads, prev_out, in1, mode>>
    /\ \/ /\ output_file' = FormatTable(df)
          /\ pc' = "done"
          /\ err' = "none"
          /\ out1' = IF mode = "first" THEN output_file' ELSE out1
       \/ /\ output_file' \in FailedWrites(df, output_file)
          /\ pc' = "aborted"
          /\ err' = "OSError"
          /\ UNCHANGED out1

-----------------------------------------------------------------------------
(* Running the script a second time *)

\* the columns of tab whose names are in names, in tab's order
RECURSIVE KeepIdx(_, _, _)
KeepIdx(cols, names, i) ==
    IF i > Len(cols) THEN << >>
    ELSE IF cols[i] \in names THEN <<i>> \o KeepIdx(cols, names, i + 1)
    ELSE KeepIdx(cols, names, i + 1)

Restrict(tab, names) ==
    LET idx == KeepIdx(tab.cols, names, 1)
    IN  [tab EXCEPT !.cols = [j \in 1..Len(idx) |-> tab.cols[idx[j]]],
                    !.rows = [i \in 1..Len(tab.rows) |->
                                [j \in 1..Len(idx) |-> tab.rows[i][idx[j]]]]]

ColSet(tab) == {tab.cols[i] : i \in 1..Len(tab.cols)}

Modes == {"same", "restricted", "full"}

NextInput(m) ==
    CASE m = "same" -> input_file
      [] m = "restricted" -> Restrict(output_file, ColSet(in1))
      [] m = "full" -> output_file

\* the caller starts the script again once the first run has completed
Rerun(m) ==
    /\ pc = "done"
    /\ mode = "first"
    /\ mode' = m
    /\ input_file' = NextInput(m)
    /\ prev_out' = output_file
    /\ pc' = "load"
    /\ err' = "none"
    /\ df' = NoFile
    /\ reads' = 0
    /\ writes' = 0
    /\ UNCHANGED <<output_file, in1, out1>>

Step ==
    \/ LoadData
    \/ SelectCagr
    \/ IdentifySource
    \/ \E k \in Years : ForecastYear(k)
    \/ SaveOutput

Next ==
    \/ LoadData
    \/ SelectCagr
    \/ IdentifySource
    \/ \E k \in Years : ForecastYear(k)
    \/ SaveOutput
    \/ \E m \in Modes : Rerun(m)

Spec == Init /\ [][Next]_vars

\* the interpreter runs the script without stopping until it ends
FairSpec == Init /\ [][Next]_vars /\ WF_vars(Step)

-----------------------------------------------------------------------------
(* Properties: how the claims read the files *)

Done == pc = "done"

Final == pc \in {"done", "aborted"}

Missing(v) == v.t = "nan"

RowIds == 1..Len(input_file.rows)

\* the value a reader of the file gets for row i, column name
InVal(i, name) == ParseCell(input_file.rows[i][ColIdx(input_file, name)])
OutVal(i, name) == ParseCell(output_file.rows[i][ColIdx(output_file, name)])

HasRequired(tab) == tab.exists /\ \A c \in RequiredCols : HasCol(tab, c)

SameRowCount == Len(output_file.rows) = Len(input_file.rows)

Abs(x) == IF x < 0 THEN -x ELSE x

\* v is an integer nearest to (a * b) / c
IsNearest(v, a, b, c) ==
    LET g == Gcd(c, Abs(a))
    IN  2 * Abs(v * (c \div g) - (a \div g) * b) <= c \div g

\* the rate the specification selects for row i of the input
SpecRate(i) ==
    IF ~Missing(InVal(i, loc_cagr_col)) THEN InVal(i, loc_cagr_col)
    ELSE InVal(i, city_cagr_col)

\* C1: after a completed run chosen_cagr of every row is the locality rate
\* when that is present, else the city rate when that is present, else missing.
C1_ChosenCagr ==
    Done =>
        /\ SameRowCount
        /\ HasCol(output_file, chosen_col)
        /\ \A i \in RowIds :
            LET loc == InVal(i, loc_cagr_col)
                city == InVal(i, city_cagr_col)
                ch == OutVal(i, chosen_col)
            IN  /\ ~Missing(loc) => ch = loc
                /\ Missing(loc) /\ ~Missing(city) => ch = city
                /\ Missing(loc) /\ Missing(city) => Missing(ch)

C1_Witness ==
    /\ Done
    /\ \E i \in RowIds :
        /\ ~Missing(InVal(i, loc_cagr_col))
        /\ ~Missing(InVal(i, city_cagr_col))
        /\ InVal(i, loc_cagr_col) # InVal(i, city_cagr_col)
        /\ OutVal(i, chosen_col) = InVal(i, loc_cagr_col)
    /\ \E j \in RowIds :
        /\ Missing(InVal(j, loc_cagr_col))
        /\ OutVal(j, chosen_col) = InVal(j, city_cagr_col)

\* C2: cagr_source of every row is one of locality, city, none; it is
\* locality iff the locality rate is present, city iff the locality rate is
\* missing and the city rate present, none iff both are missing.
C2_CagrSource ==
    Done =>
        /\ SameRowCount
        /\ HasCol(output_file, source_col)
        /\ \A i \in RowIds :
            LET loc == InVal(i, loc_cagr_col)
                city == InVal(i, city_cagr_col)
                src == OutVal(i, source_col)
            IN  /\ src \in {Str("locality"), Str("city"), Str("none")}
                /\ src = Str("locality") <=> ~Missing(loc)
                /\ src = Str("city") <=> (Missing(loc) /\ ~Missing(city))
                /\ src = Str("none") <=> (Missing(loc) /\ Missing(city))

C2_Witness ==
    /\ Done
    /\ \E i \in RowIds : OutVal(i, source_col) = Str("city")
    /\ \E j \in RowIds : OutVal(j, source_col) = Str("none")

\* C3: for a row with a price and a chosen rate r, the k-year forecast is
\* price * (1 + r)^k rounded to 2 decimals, computed from the original price;
\* 100.0 at locality rate 0.10 (city 0.05) gives 110.0, 121.0, 133.1 and
\* 200.0 at city rate 0.04 (locality missing) gives 208.0 for year 1.
C3_Forecast ==
    Done =>
        /\ SameRowCount
        /\ \A i \in RowIds : \A k \in Years :
            LET price == InVal(i, price_col)
                r == SpecRate(i)
                f == OutVal(i, ForecastCol(k))
            IN  /\ ~Missing(price) /\ ~Missing(r) =>
                    /\ f.t = "num"
                    /\ IsNearest(f.n, price.n, Pow(Scale + r.n, k), Pow(Scale, k))
                /\ (price = Num(10000) /\ InVal(i, loc_cagr_col) = Num(10)
                        /\ InVal(i, city_cagr_col) = Num(5)) =>
                    f = Num(CASE k = 1 -> 11000 [] k = 2 -> 12100 [] k = 3 -> 13310)
                /\ (price = Num(20000) /\ Missing(InVal(i, loc_cagr_col))
                        /\ InVal(i, city_cagr_col) = Num(4) /\ k = 1) =>
                    f = Num(20800)

C3_Witness ==
    /\ Done
    /\ \E i \in RowIds :
        /\ InVal(i, price_col) = Num(10000)
        /\ InVal(i, loc_cagr_col) = Num(10)
        /\ InVal(i, city_cagr_col) = Num(5)
        /\ OutVal(i, ForecastCol(3)) = Num(13310)
    /\ \E j \in RowIds :
        /\ InVal(j, price_col) = Num(107)
        /\ SpecRate(j) = Num(10)
        /\ OutVal(j, ForecastCol(1)) = Num(118)
        /\ OutVal(j, ForecastCol(2)) = Num(129)

\* C4: each forecast of a row is missing iff the price is missing or both
\* rates are missing; missing operands raise no exception, so a run on a
\* readable table with the required columns aborts only in to_csv, and a
\* completed run has written every row.
C4_MissingPropagates ==
    /\ Done =>
        /\ SameRowCount
        /\ \A i \in RowIds : \A k \in Years :
            Missing(OutVal(i, ForecastCol(k))) <=>
                \/ Missing(InVal(i, price_col))
                \/ Missing(InVal(i, loc_cagr_col)) /\ Missing(InVal(i, city_cagr_col))
    /\ HasRequired(input_file) => err \in {"none", "OSError"}

C4_Witness ==
    /\ Done
    /\ \E i \in RowIds :
        /\ Missing(InVal(i, price_col))
        /\ ~Missing(SpecRate(i))
        /\ Missing(OutVal(i, ForecastCol(1)))
    /\ \E j \in RowIds :
        /\ ~Missing(InVal(j, price_col))
        /\ Missing(SpecRate(j))
        /\ Missing(OutVal(j, ForecastCol(3)))

\* the names of DerivedSeq that tab does not have yet, in DerivedSeq's order
RECURSIVE NewDerived(_, _)
NewDerived(tab, i) ==
    IF i > Len(DerivedSeq) THEN << >>
    ELSE IF HasCol(tab, DerivedSeq[i]) THEN NewDerived(tab, i + 1)
    ELSE <<DerivedSeq[i]>> \o NewDerived(tab, i + 1)

\* C5 as stated: the output has the input's rows in order, every original
\* column unchanged, and the original columns plus exactly five more.
C5_AsStated ==
    Done =>
        /\ SameRowCount
        /\ output_file.cols = input_file.cols \o DerivedSeq
        /\ \A i \in RowIds : \A j \in 1..Len(input_file.cols) :
            OutVal(i, input_file.cols[j]) = ParseCell(input_file.rows[i][j])

\* C5 as amended: the output has the input's rows in order; its columns are
\* the original columns followed by those of the five derived names the input
\* did not have; every original column not named like a derived column has
\* the same value in every row.
C5_Frame ==
    Done =>
        /\ SameRowCount
        /\ output_file.cols = input_file.cols \o NewDerived(input_file, 1)
        /\ DerivedCols \subseteq ColSet(output_file)
        /\ \A i \in RowIds : \A j \in 1..Len(input_file.cols) :
            input_file.cols[j] \notin DerivedCols =>
                ParseCell(output_file.rows[i][j]) = ParseCell(input_file.rows[i][j])

C5_Witness ==
    /\ Done
    /\ mode = "first"
    /\ HasCol(input_file, chosen_col)
    /\ ~HasCol(input_file, source_col)
    /\ Len(output_file.cols) = Len(input_file.cols) + 3
    /\ Len(input_file.rows) = 2
    /\ input_file.rows[1] # input_file.rows[2]
    /\ \E i \in RowIds : input_file.rows[i][ColIdx(input_file, loc_cagr_col)] = NA

ForecastsOf(tab) ==
    [i \in 1..Len(tab.rows) |->
        [k \in Years |-> ParseCell(tab.rows[i][ColIdx(tab, ForecastCol(k))])]]

\* C6: a second run on the same input, or on the first output restricted to
\* the original columns, gives the forecast columns of the first run.
C6_Idempotent ==
    (Done /\ mode \in {"same", "restricted"}) =>
        /\ \A k \in Years : HasCol(output_file, ForecastCol(k))
        /\ ForecastsOf(output_file) = ForecastsOf(out1)

C6_Witness ==
    /\ Done
    /\ mode = "restricted"
    /\ input_file # in1
    /\ \E i \in RowIds : ~Missing(OutVal(i, ForecastCol(2)))
    /\ \E i \in RowIds : Missing(OutVal(i, ForecastCol(2)))

\* C7: when the input file is absent or lacks a required column, the run
\* aborts without touching the output file.
C7_InputErrorNoOutput ==
    ~HasRequired(input_file) =>
        /\ output_file = prev_out
        /\ writes = 0
        /\ pc \notin {"save", "done"}
        /\ Final => err \in {"FileNotFoundError", "EmptyDataError", "KeyError"}

C7_Witness ==
    /\ pc = "aborted"
    /\ err = "KeyError"
    /\ HasCol(input_file, loc_cagr_col)
    /\ HasCol(input_file, city_cagr_col)
    /\ ~HasCol(input_file, price_col)
    /\ HasCol(df, source_col)
    /\ output_file = StaleFile

\* the complete enriched table: every input row, all five derived columns
CompleteOutput ==
    /\ output_file.exists
    /\ SameRowCount
    /\ DerivedCols \subseteq ColSet(output_file)

\* C8: after any run, failed or not, the output file holds the complete
\* enriched table or exactly what it held before the run.
C8_NoPartialOutput == Final => (CompleteOutput \/ output_file = prev_out)

\* the order of I/O of C9: a run ends as completed or aborted; read_csv is called once, first;
\* to_csv at most once, last, with all five columns computed for every row,
\* and exactly once in a completed run; the run writes no other file.
C9_Order ==
    /\ reads = (IF pc = "load" THEN 0 ELSE 1)
    /\ writes = (IF pc \in {"done"} \/ (pc = "aborted" /\ err = "OSError") THEN 1 ELSE 0)
    /\ output_file # prev_out => writes = 1
    /\ writes = 1 =>
        /\ Final
        /\ DerivedCols \subseteq ColSet(df)
        /\ Len(df.rows) = Len(input_file.rows)
    /\ pc = "aborted" <=> err # "none"

\* C9, with the run reaching one of its two final states and staying there
C9_RunToCompletion ==
    /\ []C9_Order
    /\ [][pc' # "load" => input_file' = input_file]_vars
    /\ [][pc = "aborted" => pc' = "aborted"]_vars
    /\ (pc = "load") ~> Final

C9_Witness ==
    /\ Done
    /\ mode = "full"
    /\ writes = 1
    /\ reads = 1
    /\ output_file # NoFile

Distinct(seq) == \A i, j \in 1..Len(seq) : seq[i] = seq[j] => i = j

\* C10: a run on a table that already has derived columns overwrites them
\* where they stand, whatever they held; a run on its own complete output
\* writes the same columns and the same cells again.
C10_FixedPoint ==
    Done =>
        /\ Distinct(output_file.cols)
        /\ \A j \in 1..Len(input_file.cols) : output_file.cols[j] = input_file.cols[j]
        /\ DerivedCols \subseteq ColSet(input_file) => output_file.cols = input_file.cols
        /\ mode = "full" =>
            /\ DerivedCols \subseteq ColSet(input_file)
            /\ output_file = prev_out
            /\ output_file = out1

C10_Witness ==
    /\ Done
    /\ mode = "full"
    /\ DerivedCols \subseteq ColSet(in1)
    /\ in1.rows[1][ColIdx(in1, chosen_col)] = Num(7)
    /\ OutVal(1, chosen_col) = Num(10)
    /\ input_file # in1
    /\ Len(output_file.rows) = 2

====
